---- MODULE Spec2Model ----
(***************************************************************************)
(* A model of telegram_file_exporter/main.py: one run of export_documents  *)
(* over a channel's message stream, with process_message as the            *)
(* per-message extraction and filtering step.                              *)
(*                                                                         *)
(* Strings the code takes apart (file names, extensions, formatted dates,  *)
(* paths) are sequences of one-character strings, so that strip, splitext, *)
(* lower and strftime are computed rather than assumed.                    *)
(***************************************************************************)
EXTENDS Integers, Sequences, FiniteSets, TLC

\* ------------------------------------------------------------------ bounds

\* The longest message source the model considers.
MaxMsgs == 3
\* The largest configured --max the model considers.
MaxLimit == 2

\* ------------------------------------------------------------- characters

UpperChars == <<"A","B","C","D","E","F","G","H","I","J","K","L","M",
                "N","O","P","Q","R","S","T","U","V","W","X","Y","Z">>
LowerChars == <<"a","b","c","d","e","f","g","h","i","j","k","l","m",
                "n","o","p","q","r","s","t","u","v","w","x","y","z">>
DigitChars == <<"0","1","2","3","4","5","6","7","8","9">>

\* str.lower() on one character.
LowerChar(c) ==
    IF \E i \in 1..Len(UpperChars) : UpperChars[i] = c
    THEN LowerChars[CHOOSE i \in 1..Len(UpperChars) : UpperChars[i] = c]
    ELSE c

\* str.lower()
Lower(s) == [i \in 1..Len(s) |-> LowerChar(s[i])]

\* str.strip(): leading and trailing whitespace removed.
Strip(s) ==
    LET keep == {i \in 1..Len(s) : s[i] # " "}
    IN  IF keep = {} THEN <<>>
        ELSE LET lo == CHOOSE i \in keep : \A j \in keep : i <= j
                 hi == CHOOSE i \in keep : \A j \in keep : j <= i
             IN  SubSeq(s, lo, hi)

\* str.rfind for one character, 1-based; 0 when absent.
RFind(s, c) ==
    LET at == {i \in 1..Len(s) : s[i] = c}
    IN  IF at = {} THEN 0 ELSE CHOOSE i \in at : \A j \in at : j <= i

\* os.path.splitext(p)[-1]: the suffix from the last dot of the last path
\* component, empty when that component has no dot or only leading dots.
SplitextExt(p) ==
    LET sepIndex == RFind(p, "/")
        dotIndex == RFind(p, ".")
    IN  IF /\ dotIndex > sepIndex
           /\ \E k \in (sepIndex + 1)..(dotIndex - 1) : p[k] # "."
        THEN SubSeq(p, dotIndex, Len(p))
        ELSE <<>>

\* A non-negative number printed in exactly w decimal digits (zero padded).
RECURSIVE Pad(_, _)
Pad(n, w) == IF w = 0 THEN <<>> ELSE Pad(n \div 10, w - 1) \o <<DigitChars[(n % 10) + 1]>>

\* message.date.strftime("%Y%m%d")
StrftimeYmd(d) == Pad(d.year, 4) \o Pad(d.month, 2) \o Pad(d.day, 2)

\* message.date.strftime("%Y-%m-%d %H:%M:%S")
StrftimeFull(d) ==
    Pad(d.year, 4) \o <<"-">> \o Pad(d.month, 2) \o <<"-">> \o Pad(d.day, 2) \o <<" ">>
    \o Pad(d.hour, 2) \o <<":">> \o Pad(d.minute, 2) \o <<":">> \o Pad(d.second, 2)

Min(a, b) == IF a <= b THEN a ELSE b

\* -------------------------------------------------------------- constants

DEFAULT_ALLOWED_EXTENSIONS ==
    { <<".","z","i","p">>, <<".","t","a","r">>, <<".","g","z">>, <<".","7","z">>,
      <<".","r","a","r">>, <<".","x","l","s">>, <<".","x","l","s","x">>,
      <<".","c","s","v">>, <<".","t","x","t">>, <<".","d","o","c">>,
      <<".","d","o","c","x">> }

\* Bytes per MiB, the divisor of the size check.
MiB == 1024 * 1024

\* ------------------------------------------------------------ input space

\* The values of --extensions the model considers: none given (the default
\* set applies), and a list in upper case that also holds the empty string.
ExtensionChoices == { {}, { <<".","C","S","V">>, <<>> } }

\* The values of --size-limit (MB) the model considers.
SizeLimitChoices == { 1 }

\* The download directory.
DownloadDir == <<"d","l">>

Date1   == [year |-> 2024, month |-> 1, day |-> 5, hour |-> 9, minute |-> 30, second |-> 0]
Date1pm == [year |-> 2024, month |-> 1, day |-> 5, hour |-> 17, minute |-> 4, second |-> 59]
Date2   == [year |-> 2024, month |-> 1, day |-> 6, hour |-> 9, minute |-> 30, second |-> 0]

FileNameAttr(name) == [has_file_name |-> TRUE, file_name |-> name]
OtherAttr == [has_file_name |-> FALSE, file_name |-> <<>>]

NoDocument == [present |-> FALSE, attributes |-> <<>>, size |-> 0]
Document(attrs, size) == [present |-> TRUE, attributes |-> attrs, size |-> size]

NoMedia == [kind |-> "none", document |-> NoDocument]
PhotoMedia == [kind |-> "photo", document |-> NoDocument]
DocumentMedia(doc) == [kind |-> "document", document |-> doc]
\* A media value that is a list of document media, the case process_message's
\* "isinstance(message.media, list)" provides for.
ListMedia(items) == [kind |-> "list", document |-> NoDocument, items |-> items]

Name_a_csv    == <<"a",".","c","s","v">>
Name_A_CSV    == <<"A",".","C","S","V">>
Name_padded   == <<" ","a",".","c","s","v"," ">>
Name_b_exe    == <<"b",".","e","x","e">>
Name_dotfile  == <<".","c","s","v">>
Name_blank    == <<" ">>

\* What a message can carry: its post date and its media.
MessageShapes ==
    { [date |-> Date1, media |-> NoMedia],
      [date |-> Date1, media |-> PhotoMedia],
      [date |-> Date1, media |-> DocumentMedia(NoDocument)],
      [date |-> Date1, media |-> DocumentMedia(Document(<<OtherAttr>>, MiB))],
      [date |-> Date1, media |-> DocumentMedia(Document(<<FileNameAttr(Name_blank)>>, MiB))],
      [date |-> Date1, media |-> DocumentMedia(Document(<<FileNameAttr(Name_b_exe)>>, MiB))],
      [date |-> Date1, media |-> DocumentMedia(Document(<<FileNameAttr(Name_dotfile)>>, MiB))],
      [date |-> Date1, media |-> DocumentMedia(Document(<<OtherAttr, FileNameAttr(Name_a_csv)>>, MiB))],
      [date |-> Date1, media |-> DocumentMedia(Document(<<FileNameAttr(Name_a_csv)>>, MiB + 1))],
      [date |-> Date1pm, media |-> DocumentMedia(Document(<<FileNameAttr(Name_padded)>>, MiB))],
      [date |-> Date2, media |-> DocumentMedia(Document(<<FileNameAttr(Name_A_CSV)>>, 0))] }

\* The channels get_entity can resolve to: one with a public username, one
\* without (its numeric id is negative).
Channels ==
    { [username |-> <<"n","e","w","s">>, id |-> 1001234, title |-> "News"],
      [username |-> <<>>, id |-> -1001234, title |-> "Private"] }

NoChannel == [username |-> <<>>, id |-> 0, title |-> ""]
NoMessage == [id |-> 0, date |-> Date1, media |-> NoMedia]

\* ------------------------------------------------------------------ state

VARIABLES
    \* export_documents' arguments
    mode,               \* "list" or "download"
    max_limit,          \* --max
    output,             \* whether the JSON file is written
    allowed_extensions, \* the extension set in force (after the default is applied)
    maxsize_mb,         \* --size-limit
    \* the world outside the run
    available,          \* how many messages the channel holds
    fs,                 \* the paths that exist on disk
    source,             \* the messages the channel is known to yield, in order
                        \* (<<>>: not fixed in advance)
    previous,           \* what an earlier run over the same channel left behind
    \* export_documents' locals
    pc,                 \* where the run stands
    channel,
    processed,
    files_downloaded,
    files_existed,
    channel_data,       \* the manifest entries so far
    message,            \* the message of the current iteration
    files_data,         \* process_message's result for it
    fi,                 \* position of the inner loop in files_data
    \* the history of the run's calls to its collaborators
    failure,            \* what raised the exception the except clause caught
    seen,               \* ids of the messages iter_messages has yielded
    probes,             \* os.path.exists calls: message id, path, answer
    transfers,          \* download_media calls: message id, path, outcome
    inflight,           \* download_media calls that have not returned
    delays,             \* time.sleep calls
    writes,             \* json.dump calls
    written,            \* the documents handed to json.dump
    mark                \* the manifest length and counters when the current message was pulled

config == <<mode, max_limit, output, allowed_extensions, maxsize_mb, available,
            source, previous>>
locals == <<channel, processed, files_downloaded, files_existed, channel_data,
            message, files_data, fi>>
history == <<seen, probes, transfers, inflight, delays, writes, written, mark>>
vars == <<config, fs, pc, locals, failure, history>>

\* --------------------------------------------------------- pure functions

\* allowed_extensions or DEFAULT_ALLOWED_EXTENSIONS
EffectiveExtensions(given) == IF given = {} THEN DEFAULT_ALLOWED_EXTENSIONS ELSE given

\* os.path.join for two components
PathJoin(dir, name) ==
    IF name # <<>> /\ name[1] = "/" THEN name
    ELSE IF dir = <<>> \/ dir[Len(dir)] = "/" THEN dir \o name
    ELSE dir \o <<"/">> \o name

sanitize_filename(msg, file_name) == StrftimeYmd(msg.date) \o <<"-">> \o file_name

\* abs()
Abs(x) == IF x < 0 THEN 0 - x ELSE x

\* The URL https://t.me/<username>/<id> or https://t.me/c/<|channel id|>/<id>,
\* kept as its parts.
get_post_url(chan, msg) ==
    IF chan.username # <<>>
    THEN [base |-> "https://t.me/", username |-> chan.username, channel_id |-> 0, message_id |-> msg.id]
    ELSE [base |-> "https://t.me/c/", username |-> <<>>, channel_id |-> Abs(chan.id), message_id |-> msg.id]

\* The stripped file_name of the first attribute that has one; <<>> stands
\* for both None (no such attribute) and the empty string.
FileNameOf(doc) ==
    LET named == {i \in 1..Len(doc.attributes) : doc.attributes[i].has_file_name}
    IN  IF named = {} THEN <<>>
        ELSE Strip(doc.attributes[CHOOSE i \in named : \A j \in named : i <= j].file_name)

\* file_ext in (ext.lower() for ext in allowed_extensions)
ExtensionAllowed(file_name, allowed) ==
    Lower(SplitextExt(file_name)) \in {Lower(e) : e \in allowed}

\* doc.document.size / (1024 * 1024), an exact quotient kept as its whole
\* MiB and the bytes left over.
FsizeMb(size) == [whole |-> size \div MiB, rest |-> size % MiB]

\* The size check with a size equal to the limit refused.
ExceedsLimitAtBoundary(fsize_mb, limit) ==
    \/ fsize_mb.whole > limit
    \/ fsize_mb.whole = limit

\* The size check as it would be with the quotient truncated to whole MiB.
ExceedsLimitTruncated(fsize_mb, limit) == fsize_mb.whole > limit

\* fsize_mb > maxsize_mb
ExceedsLimit(fsize_mb, limit) ==
    \/ fsize_mb.whole > limit
    \/ fsize_mb.whole = limit /\ fsize_mb.rest > 0

\* The disk looked at whatever the mode.
ShouldProbeAlways(md) == TRUE

\* mode == "download": the only case in which the disk is looked at
ShouldProbe(md) == md = "download"

\* The loop body with the existence check made on the attachment's own
\* name instead of the name the file is stored under.
ProcessDocumentProbesOriginalName(doc, msg, chan, allowed, limit, dir, md, disk) ==
    LET file_name == FileNameOf(doc)
        fsize_mb == FsizeMb(doc.size)
        combined_name == sanitize_filename(msg, file_name)
        file_path == PathJoin(dir, combined_name)
    IN  IF file_name = <<>> THEN <<>>
        ELSE IF ~ExtensionAllowed(file_name, allowed) THEN <<>>
        ELSE IF ExceedsLimit(fsize_mb, limit) THEN <<>>
        ELSE << [file_name |-> file_name,
                 file_path |-> IF ShouldProbe(md) THEN <<file_path>> ELSE <<>>,
                 post_url |-> get_post_url(chan, msg),
                 file_exists |-> ShouldProbe(md) /\ PathJoin(dir, file_name) \in disk,
                 fsize_mb |-> fsize_mb] >>

\* One pass of process_message's loop body: the file_data of one document,
\* as a sequence of one element, or <<>> when the document is skipped.
ProcessDocument(doc, msg, chan, allowed, limit, dir, md, disk) ==
    LET file_name == FileNameOf(doc)
        fsize_mb == FsizeMb(doc.size)
        combined_name == sanitize_filename(msg, file_name)
        file_path == PathJoin(dir, combined_name)
    IN  IF file_name = <<>> THEN <<>>
        ELSE IF ~ExtensionAllowed(file_name, allowed) THEN <<>>
        ELSE IF ExceedsLimit(fsize_mb, limit) THEN <<>>
        ELSE << [file_name |-> file_name,
                 file_path |-> IF ShouldProbe(md) THEN <<file_path>> ELSE <<>>,
                 post_url |-> get_post_url(chan, msg),
                 file_exists |-> ShouldProbe(md) /\ file_path \in disk,
                 fsize_mb |-> fsize_mb] >>

\* The list process_message iterates:
\* message.media if isinstance(message.media, list) else [message.media]
MediaList(msg) == IF msg.media.kind = "list" THEN msg.media.items ELSE <<msg.media>>

RECURSIVE ProcessMedia(_, _, _, _, _, _, _, _)
ProcessMedia(media, msg, chan, allowed, limit, dir, md, disk) ==
    IF media = <<>> THEN <<>>
    ELSE ProcessDocument(Head(media).document, msg, chan, allowed, limit, dir, md, disk)
         \o ProcessMedia(Tail(media), msg, chan, allowed, limit, dir, md, disk)

\* not message.media or not isinstance(message.media, MessageMediaDocument)
NoDocumentMedia(msg) == msg.media.kind # "document"

\* process_message's return value (when it returns).
process_message(msg, chan, allowed, limit, dir, md, disk) ==
    IF NoDocumentMedia(msg) THEN <<>>
    ELSE ProcessMedia(MediaList(msg), msg, chan, allowed, limit, dir, md, disk)

\* process_message raises instead: doc.document is None, so
\* doc.document.attributes is an AttributeError.
ProcessRaises(msg) == ~NoDocumentMedia(msg) /\ ~msg.media.document.present

\* The os.path.exists calls process_message makes for msg.
ProbesOf(msg, data) ==
    LET probing == SelectSeq(data, LAMBDA fd : fd.file_path # <<>>)
    IN  [i \in 1..Len(probing) |->
            [id |-> msg.id, path |-> probing[i].file_path[1], found |-> probing[i].file_exists]]

\* The manifest row of one file_data.
ManifestEntry(msg, fd) ==
    [file_name |-> fd.file_name,
     date_posted |-> StrftimeFull(msg.date),
     combined_name |-> sanitize_filename(msg, fd.file_name),
     post_url |-> fd.post_url]

\* The transfer requested without regard to the existence check.
NeedsTransferAlways(md, fd) == md = "download"

\* mode == "download" and not file_data["file_exists"]
NeedsTransfer(md, fd) == md = "download" /\ ~fd.file_exists

\* The elif branch lost: an existing file is not counted.
CountsAsExistedNever(md, fd) == FALSE

\* elif file_data["file_exists"]
CountsAsExisted(md, fd) == ~NeedsTransfer(md, fd) /\ fd.file_exists

\* iter_messages asked for one message more than --max.
IterLimitOneMore(limit) == limit + 1

\* The limit handed to iter_messages.
IterLimit(limit) == limit

\* if processed >= max_limit: break
LoopBreak(count, limit) == count >= limit

\* The id of the k-th message a channel of n messages yields: newest first.
SourceId(k, n) == n - k + 1

\* ------------------------------------------------------------ operations

\* The files the download directory may hold before the run starts.
InitialDisks == { {}, {PathJoin(DownloadDir, sanitize_filename([date |-> Date1], Name_a_csv))} }

NoMark == [entries |-> 0, downloaded |-> 0, existed |-> 0]

\* No run has been made before this one.
NoPrevious == [ran |-> FALSE, channel |-> NoChannel, channel_data |-> <<>>,
               fs |-> {}, transfers |-> <<>>, written |-> <<>>]

\* What the k-th message yielded can be: any message, or the one the
\* channel is known to hold at that position.
Yieldable(k) == IF k <= Len(source) THEN {source[k]} ELSE MessageShapes

\* What get_entity can return: the same channel as in the earlier run, if
\* there was one.
Resolvable == IF previous.ran THEN {previous.channel} ELSE Channels

\* export_documents is entered: the arguments are bound, nothing has run.
Init ==
    /\ mode \in {"list", "download"}
    /\ max_limit \in 0..MaxLimit
    /\ output \in BOOLEAN
    /\ allowed_extensions \in {EffectiveExtensions(e) : e \in ExtensionChoices}
    /\ maxsize_mb \in SizeLimitChoices
    /\ available \in 0..MaxMsgs
    /\ fs \in InitialDisks
    /\ source = <<>>
    /\ previous = NoPrevious
    /\ pc = "Initializing"
    /\ channel = NoChannel
    /\ processed = 0
    /\ files_downloaded = 0
    /\ files_existed = 0
    /\ channel_data = <<>>
    /\ message = NoMessage
    /\ files_data = <<>>
    /\ fi = 1
    /\ failure = "none"
    /\ seen = <<>>
    /\ probes = <<>>
    /\ transfers = <<>>
    /\ inflight = 0
    /\ delays = 0
    /\ writes = 0
    /\ written = <<>>
    /\ mark = NoMark

\* The manifest written from the exception handler as well (as in a
\* finally clause).
CaughtThenWrites(what) ==
    /\ pc' = "Finalizing"
    /\ failure' = what
    /\ UNCHANGED <<config, fs, locals, history>>

\* except Exception as e: print(...): the run ends where the exception rose.
Caught(what) ==
    /\ pc' = "Failed"
    /\ failure' = what
    /\ UNCHANGED <<config, fs, locals, history>>

\* channel = await client.get_entity(channel_name) returns; the counters
\* and the manifest are set up.
ResolveOk ==
    /\ pc = "Initializing"
    /\ \E c \in Resolvable : channel' = c
    /\ processed' = 0
    /\ files_downloaded' = 0
    /\ files_existed' = 0
    /\ channel_data' = <<>>
    /\ pc' = "Iterating"
    /\ UNCHANGED <<config, fs, message, files_data, fi, failure, history>>

\* get_entity's exception swallowed at the call: the run goes on to write.
ResolveFailFallsThrough ==
    /\ pc = "Initializing"
    /\ pc' = "Finalizing"
    /\ failure' = "resolve"
    /\ UNCHANGED <<config, fs, locals, history>>

\* get_entity raises.
ResolveFail ==
    /\ pc = "Initializing"
    /\ Caught("resolve")

\* iter_messages yields the next message; processed += 1.
IterYield ==
    /\ pc = "Iterating"
    /\ Len(seen) < available
    /\ Len(seen) < IterLimit(max_limit)
    /\ \E shape \in Yieldable(Len(seen) + 1) :
          message' = [id |-> SourceId(Len(seen) + 1, available),
                      date |-> shape.date, media |-> shape.media]
    /\ seen' = Append(seen, SourceId(Len(seen) + 1, available))
    /\ processed' = processed + 1
    /\ mark' = [entries |-> Len(channel_data), downloaded |-> files_downloaded,
                existed |-> files_existed]
    /\ pc' = "Processing"
    /\ UNCHANGED <<config, fs, channel, files_downloaded, files_existed, channel_data,
                   files_data, fi, failure, probes, transfers, inflight, delays,
                   writes, written>>

\* iter_messages is exhausted: the channel has no more messages, or the
\* limit it was given is reached.
IterStop ==
    /\ pc = "Iterating"
    /\ ~(Len(seen) < available /\ Len(seen) < IterLimit(max_limit))
    /\ pc' = "Finalizing"
    /\ UNCHANGED <<config, fs, locals, failure, history>>

\* iter_messages raises (the request for the next messages fails).
IterError ==
    /\ pc = "Iterating"
    /\ Len(seen) < available
    /\ Len(seen) < IterLimit(max_limit)
    /\ Caught("transport")

\* files_data = await process_message(...) returns.
ProcessMessage ==
    /\ pc = "Processing"
    /\ ~ProcessRaises(message)
    /\ files_data' = process_message(message, channel, allowed_extensions, maxsize_mb,
                                     DownloadDir, mode, fs)
    /\ probes' = probes \o ProbesOf(message, files_data')
    /\ fi' = 1
    /\ pc' = "Files"
    /\ UNCHANGED <<config, fs, channel, processed, files_downloaded, files_existed,
                   channel_data, message, failure, seen, transfers, inflight, delays,
                   writes, written, mark>>

\* process_message raises.
ProcessMessageRaises ==
    /\ pc = "Processing"
    /\ ProcessRaises(message)
    /\ Caught("extract")

\* The loop body with download_media started but not awaited.
HandleFileNoAwait ==
    /\ pc = "Files"
    /\ fi <= Len(files_data)
    /\ LET fd == files_data[fi] IN
       /\ channel_data' = Append(channel_data, ManifestEntry(message, fd))
       /\ IF NeedsTransfer(mode, fd)
          THEN /\ transfers' = Append(transfers,
                                  [id |-> message.id, path |-> fd.file_path,
                                   present |-> fd.file_path # <<>> /\ fd.file_path[1] \in fs,
                                   outcome |-> "pending"])
               /\ inflight' = inflight + 1
               /\ files_downloaded' = files_downloaded + 1
               /\ UNCHANGED files_existed
          ELSE /\ files_existed' = IF CountsAsExisted(mode, fd)
                                   THEN files_existed + 1 ELSE files_existed
               /\ UNCHANGED <<transfers, inflight, files_downloaded>>
       /\ fi' = fi + 1
    /\ UNCHANGED <<config, fs, pc, channel, processed, message, files_data,
                   failure, seen, probes, delays, writes, written, mark>>

\* One pass of "for file_data in files_data" up to the await: the manifest
\* row is appended, then either download_media is called, or the file is
\* counted as existing, or (list mode) nothing more happens.
HandleFile ==
    /\ pc = "Files"
    /\ fi <= Len(files_data)
    /\ LET fd == files_data[fi] IN
       /\ channel_data' = Append(channel_data, ManifestEntry(message, fd))
       /\ IF NeedsTransfer(mode, fd)
          THEN /\ transfers' = Append(transfers,
                                  [id |-> message.id, path |-> fd.file_path,
                                   present |-> fd.file_path # <<>> /\ fd.file_path[1] \in fs,
                                   outcome |-> "pending"])
               /\ inflight' = inflight + 1
               /\ pc' = "Transferring"
               /\ UNCHANGED <<fi, files_existed>>
          ELSE /\ files_existed' = IF CountsAsExisted(mode, fd)
                                   THEN files_existed + 1 ELSE files_existed
               /\ fi' = fi + 1
               /\ UNCHANGED <<pc, transfers, inflight>>
    /\ UNCHANGED <<config, fs, channel, processed, files_downloaded, message, files_data,
                   failure, seen, probes, delays, writes, written, mark>>

\* The download awaited but never counted.
TransferReturnsUncounted ==
    /\ pc = "Transferring"
    /\ \E result \in {"ok", "none"} :
          /\ transfers' = [transfers EXCEPT ![Len(transfers)].outcome = result]
          /\ fs' = IF result = "ok" THEN fs \cup {files_data[fi].file_path[1]} ELSE fs
    /\ inflight' = inflight - 1
    /\ fi' = fi + 1
    /\ pc' = "Files"
    /\ UNCHANGED <<config, channel, processed, files_downloaded, files_existed,
                   channel_data, message, files_data, failure, seen, probes, delays,
                   writes, written, mark>>

\* await client.download_media(message.media, file_path) returns, with the
\* file written or with None; files_downloaded += 1 follows either way.
TransferReturns ==
    /\ pc = "Transferring"
    /\ \E result \in {"ok", "none"} :
          /\ transfers' = [transfers EXCEPT ![Len(transfers)].outcome = result]
          /\ fs' = IF result = "ok" THEN fs \cup {files_data[fi].file_path[1]} ELSE fs
    /\ inflight' = inflight - 1
    /\ files_downloaded' = files_downloaded + 1
    /\ fi' = fi + 1
    /\ pc' = "Files"
    /\ UNCHANGED <<config, channel, processed, files_existed, channel_data, message,
                   files_data, failure, seen, probes, delays, writes, written, mark>>

\* download_media raises.
TransferRaises ==
    /\ pc = "Transferring"
    /\ transfers' = [transfers EXCEPT ![Len(transfers)].outcome = "raise"]
    /\ inflight' = inflight - 1
    /\ pc' = "Failed"
    /\ failure' = "transfer"
    /\ UNCHANGED <<config, fs, locals, seen, probes, delays, writes, written, mark>>

\* A message that yielded no file handed to process_message again instead
\* of the next one being read.
PaceRetriesEmpty ==
    /\ pc = "Files"
    /\ fi > Len(files_data)
    /\ delays' = IF files_data = <<>> THEN delays ELSE delays + 1
    /\ pc' = IF files_data = <<>> THEN "Processing"
             ELSE IF LoopBreak(processed, max_limit) THEN "Finalizing" ELSE "Iterating"
    /\ UNCHANGED <<config, fs, locals, failure, seen, probes, transfers, inflight,
                   writes, written, mark>>

\* The pause taken only after a message that yielded files.
PaceSkipsEmpty ==
    /\ pc = "Files"
    /\ fi > Len(files_data)
    /\ delays' = IF files_data = <<>> THEN delays ELSE delays + 1
    /\ pc' = IF LoopBreak(processed, max_limit) THEN "Finalizing" ELSE "Iterating"
    /\ UNCHANGED <<config, fs, locals, failure, seen, probes, transfers, inflight,
                   writes, written, mark>>

\* The inner loop is over: time.sleep(random.uniform(1, 3)), then the
\* check of processed against max_limit.
Pace ==
    /\ pc = "Files"
    /\ fi > Len(files_data)
    /\ delays' = delays + 1
    /\ pc' = IF LoopBreak(processed, max_limit) THEN "Finalizing" ELSE "Iterating"
    /\ UNCHANGED <<config, fs, locals, failure, seen, probes, transfers, inflight,
                   writes, written, mark>>

\* A sequence back to front.
Reverse(s) == [i \in 1..Len(s) |-> s[Len(s) + 1 - i]]

\* The manifest re-ordered (oldest first) before it is written.
WriteManifestSorted ==
    /\ pc = "Finalizing"
    /\ output
    /\ writes' = writes + 1
    /\ written' = Append(written, [key |-> channel.title, entries |-> Reverse(channel_data)])
    /\ pc' = "Done"
    /\ UNCHANGED <<config, fs, locals, failure, seen, probes, transfers, inflight,
                   delays, mark>>

\* if output: the manifest is written under the channel's display name.
WriteManifest ==
    /\ pc = "Finalizing"
    /\ output
    /\ writes' = writes + 1
    /\ written' = Append(written, [key |-> channel.title, entries |-> channel_data])
    /\ pc' = "Done"
    /\ UNCHANGED <<config, fs, locals, failure, seen, probes, transfers, inflight,
                   delays, mark>>

\* open(output_file, "w") or json.dump raises.
WriteFails ==
    /\ pc = "Finalizing"
    /\ output
    /\ writes' = writes + 1
    /\ pc' = "Failed"
    /\ failure' = "write"
    /\ UNCHANGED <<config, fs, locals, seen, probes, transfers, inflight, delays,
                   written, mark>>

\* output is false: nothing is written.
SkipManifest ==
    /\ pc = "Finalizing"
    /\ ~output
    /\ pc' = "Done"
    /\ UNCHANGED <<config, fs, locals, failure, history>>

Next ==
    \/ ResolveOk
    \/ ResolveFail
    \/ IterYield
    \/ IterStop
    \/ IterError
    \/ ProcessMessage
    \/ ProcessMessageRaises
    \/ HandleFile
    \/ TransferReturns
    \/ TransferRaises
    \/ Pace
    \/ WriteManifest
    \/ WriteFails
    \/ SkipManifest

Spec == Init /\ [][Next]_vars

\* ------------------------------------------------- process_message alone

\* The values of --size-limit and the document sizes around each of them.
ExtractSizeLimits == { 0, 1, 2 }
ExtractSizes == { l * MiB + d : l \in ExtractSizeLimits, d \in {-1, 0, 1} } \ { -1 }

\* The messages process_message is tried on: those of a run, one document
\* of each size, and media lists of two documents.
ExtractShapes ==
    MessageShapes
    \cup { [date |-> Date1, media |-> DocumentMedia(Document(<<FileNameAttr(Name_a_csv)>>, b))] :
            b \in ExtractSizes }
    \cup { [date |-> Date1,
            media |-> ListMedia(<<DocumentMedia(Document(<<FileNameAttr(Name_a_csv)>>, 0)),
                                  DocumentMedia(Document(<<FileNameAttr(Name_b_exe)>>, 0))>>)],
           [date |-> Date1,
            media |-> ListMedia(<<DocumentMedia(Document(<<FileNameAttr(Name_b_exe)>>, 0)),
                                  DocumentMedia(Document(<<FileNameAttr(Name_a_csv)>>, 0))>>)] }

\* The first message of a channel has been yielded: process_message is
\* about to be called on it.
InitExtract ==
    /\ mode \in {"list", "download"}
    /\ max_limit = 1
    /\ output = TRUE
    /\ allowed_extensions \in {EffectiveExtensions(e) : e \in ExtensionChoices}
    /\ maxsize_mb \in ExtractSizeLimits
    /\ available = 1
    /\ fs \in InitialDisks
    /\ source = <<>>
    /\ previous = NoPrevious
    /\ pc = "Processing"
    /\ channel \in Channels
    /\ processed = 1
    /\ files_downloaded = 0
    /\ files_existed = 0
    /\ channel_data = <<>>
    /\ \E shape \in ExtractShapes :
          message = [id |-> SourceId(1, 1), date |-> shape.date, media |-> shape.media]
    /\ files_data = <<>>
    /\ fi = 1
    /\ failure = "none"
    /\ seen = <<SourceId(1, 1)>>
    /\ probes = <<>>
    /\ transfers = <<>>
    /\ inflight = 0
    /\ delays = 0
    /\ writes = 0
    /\ written = <<>>
    /\ mark = NoMark

NextExtract ==
    \/ ProcessMessage
    \/ ProcessMessageRaises

SpecExtract == InitExtract /\ [][NextExtract]_vars

\* ------------------------------------------------- the same run, made twice

\* The messages of a channel that is read twice.
RerunShapes ==
    { [date |-> Date1, media |-> NoMedia],
      [date |-> Date1, media |-> DocumentMedia(NoDocument)],
      [date |-> Date1, media |-> DocumentMedia(Document(<<OtherAttr, FileNameAttr(Name_a_csv)>>, MiB))],
      [date |-> Date1, media |-> DocumentMedia(Document(<<FileNameAttr(Name_a_csv)>>, MiB + 1))],
      [date |-> Date1pm, media |-> DocumentMedia(Document(<<FileNameAttr(Name_padded)>>, MiB))],
      [date |-> Date2, media |-> DocumentMedia(Document(<<FileNameAttr(Name_A_CSV)>>, 0))] }

\* A download-mode run over a channel whose messages are fixed: the
\* iterator reads at most min(available, max_limit) of them, so those are
\* the ones held in source.
InitRerun ==
    /\ mode = "download"
    /\ max_limit \in 0..MaxLimit
    /\ output \in BOOLEAN
    /\ allowed_extensions \in {EffectiveExtensions(e) : e \in ExtensionChoices}
    /\ maxsize_mb \in SizeLimitChoices
    /\ available \in 0..MaxMsgs
    /\ fs \in InitialDisks
    /\ source \in [1..Min(available, max_limit) -> RerunShapes]
    /\ previous = NoPrevious
    /\ pc = "Initializing"
    /\ channel = NoChannel
    /\ processed = 0
    /\ files_downloaded = 0
    /\ files_existed = 0
    /\ channel_data = <<>>
    /\ message = NoMessage
    /\ files_data = <<>>
    /\ fi = 1
    /\ failure = "none"
    /\ seen = <<>>
    /\ probes = <<>>
    /\ transfers = <<>>
    /\ inflight = 0
    /\ delays = 0
    /\ writes = 0
    /\ written = <<>>
    /\ mark = NoMark

\* The program is started again with the same arguments once a run has
\* ended normally: export_documents begins afresh, the disk is as the
\* earlier run left it.
Restart ==
    /\ pc = "Done"
    /\ ~previous.ran
    /\ previous' = [ran |-> TRUE, channel |-> channel, channel_data |-> channel_data,
                    fs |-> fs, transfers |-> transfers, written |-> written]
    /\ pc' = "Initializing"
    /\ channel' = NoChannel
    /\ processed' = 0
    /\ files_downloaded' = 0
    /\ files_existed' = 0
    /\ channel_data' = <<>>
    /\ message' = NoMessage
    /\ files_data' = <<>>
    /\ fi' = 1
    /\ seen' = <<>>
    /\ probes' = <<>>
    /\ transfers' = <<>>
    /\ inflight' = 0
    /\ delays' = 0
    /\ writes' = 0
    /\ written' = <<>>
    /\ mark' = NoMark
    /\ UNCHANGED <<mode, max_limit, output, allowed_extensions, maxsize_mb,
                   available, source, fs, failure>>

NextRerun ==
    \/ Next
    \/ Restart

SpecRerun == InitRerun /\ [][NextRerun]_vars

\* await process_message(...) is over: it returned or it raised. The step
\* is told by pc alone.
Extracted == pc = "Processing" /\ pc' \in {"Files", "Failed"}

\* Every call the run awaits returns or raises, and the code between two
\* calls runs on: a run that can take a step eventually takes one.
FairSpec ==
    /\ Spec
    /\ WF_vars(pc # "Processing" /\ Next)
    /\ WF_pc(Extracted)

\* ------------------------------------------------------------------ types

TypeOK ==
    /\ pc \in {"Initializing", "Iterating", "Processing", "Files", "Transferring",
               "Finalizing", "Done", "Failed"}
    /\ processed \in 0..(MaxMsgs + 1)
    /\ Len(files_data) <= 1
    /\ inflight \in 0..1

\* ----------------------------------------------------------------- claims

\* The manifest rows appended since the current message was pulled.
EntriesOfCurrent == SubSeq(channel_data, mark.entries + 1, Len(channel_data))

\* The documents attached to a message.
AttachmentsOf(msg) ==
    IF msg.media.kind = "document" /\ msg.media.document.present
    THEN <<msg.media.document>>
    ELSE IF msg.media.kind = "list"
    THEN [i \in 1..Len(msg.media.items) |-> msg.media.items[i].document]
    ELSE <<>>

\* An attachment with a non-empty file name, an allowed extension and a size
\* within the ceiling, each stated on the attachment itself.
Admissible(doc) ==
    /\ FileNameOf(doc) # <<>>
    /\ \E e \in allowed_extensions : Lower(e) = Lower(SplitextExt(FileNameOf(doc)))
    /\ doc.size <= maxsize_mb * MiB

\* The inner loop has dealt with every file_data of the current message.
MessageOver == processed > 0 /\ pc \notin {"Processing", "Files", "Transferring"}

\* The answer os.path.exists gave for a file_data of the current message.
ProbeFound(fd) ==
    \E k \in 1..Len(probes) :
        probes[k].id = message.id /\ <<probes[k].path>> = fd.file_path /\ probes[k].found
ProbeMissed(fd) ==
    \E k \in 1..Len(probes) :
        probes[k].id = message.id /\ <<probes[k].path>> = fd.file_path /\ ~probes[k].found

\* download_media was called for a file_data of the current message.
Requested(fd) ==
    \E k \in 1..Len(transfers) :
        transfers[k].id = message.id /\ transfers[k].path = fd.file_path

\* C1: for every attachment of every processed message, a manifest entry is
\* appended if and only if the attachment has a non-empty file name, an
\* allowed extension and a size within the ceiling. Stated on the message of
\* the current iteration, which every processed message is in turn: the
\* rows appended for it are rows of its admissible attachments, in order,
\* and once its loop is over there is one row for each of them.
C1_EntryIffAdmissible ==
    processed > 0 =>
        LET adm == SelectSeq(AttachmentsOf(message), Admissible)
            mine == EntriesOfCurrent
        IN  /\ Len(mine) <= Len(adm)
            /\ \A i \in 1..Len(mine) :
                  /\ mine[i].file_name = FileNameOf(adm[i])
                  /\ mine[i].post_url.message_id = message.id
            /\ MessageOver => Len(mine) = Len(adm)

\* A run that has admitted one attachment and then rejected an oversized one.
C1_Witness ==
    /\ MessageOver
    /\ processed = 2
    /\ Len(channel_data) = 1
    /\ channel_data[1].post_url.message_id # message.id
    /\ AttachmentsOf(message) # <<>>
    /\ FileNameOf(message.media.document) = Name_a_csv
    /\ message.media.document.size > maxsize_mb * MiB

\* C2: in download mode, download_media is invoked for an admissible
\* attachment if and only if the existence check found no file at its path;
\* it is never invoked for one whose file was found.
C2_TransferIffAbsent ==
    /\ \A k \in 1..Len(transfers) :
          /\ mode = "download"
          /\ \E j \in 1..Len(probes) :
                /\ probes[j].id = transfers[k].id
                /\ <<probes[j].path>> = transfers[k].path
                /\ ~probes[j].found
          /\ ~\E j \in 1..Len(probes) :
                /\ probes[j].id = transfers[k].id
                /\ <<probes[j].path>> = transfers[k].path
                /\ probes[j].found
    /\ (mode = "download" /\ processed > 0) =>
          \A i \in 1..Len(EntriesOfCurrent) :
              /\ Requested(files_data[i]) <=> ProbeMissed(files_data[i])
              /\ ProbeFound(files_data[i]) => ~Requested(files_data[i])
              /\ ProbeFound(files_data[i]) \/ ProbeMissed(files_data[i])

\* A download run that has skipped one existing file and requested one transfer.
C2_Witness ==
    /\ mode = "download"
    /\ files_existed = 1
    /\ Len(transfers) = 1
    /\ MessageOver

\* C3: a run whose channel resolves processes exactly min(n, L) messages,
\* the first min(n, L) the source yields, and every manifest entry comes
\* from one of them. At every point of the run the messages processed are
\* a prefix of the source no longer than min(n, L) and the manifest rows
\* come from them; when the loop has ended the count is min(n, L).
C3_BoundedPrefix ==
    /\ processed = Len(seen)
    /\ processed <= Min(available, max_limit)
    /\ \A k \in 1..Len(seen) : seen[k] = SourceId(k, available)
    /\ \A i \in 1..Len(channel_data) :
          \E k \in 1..Len(seen) : channel_data[i].post_url.message_id = seen[k]
    /\ (pc \in {"Finalizing", "Done"} \/ failure = "write") =>
          processed = Min(available, max_limit)

\* Three messages available, two allowed: two processed, the third never pulled.
C3_Witness ==
    /\ pc = "Done"
    /\ available = 3
    /\ max_limit = 2
    /\ processed = 2
    /\ Len(channel_data) = 2

\* C4: a failure while extracting one message does not abort the run: the
\* remaining messages up to the bound are still processed and the manifest
\* is still written; only resolution and transport failures end the run.
C4_ExtractionFailureDoesNotAbort ==
    (pc \in {"Done", "Failed"} /\ failure \in {"none", "extract"}) =>
        /\ pc = "Done"
        /\ processed = Min(available, max_limit)
        /\ output => writes = 1

\* C5: if channel resolution fails the run is Failed with no manifest
\* entries, no writer invocation, no message pulled and no transfer.
C5_ResolutionFailure ==
    failure = "resolve" =>
        /\ pc = "Failed"
        /\ channel_data = <<>>
        /\ writes = 0
        /\ written = <<>>
        /\ seen = <<>>
        /\ processed = 0
        /\ transfers = <<>>
        /\ probes = <<>>
        /\ delays = 0

\* The run after get_entity has raised, with a manifest requested.
C5_Witness == failure = "resolve" /\ output /\ available > 0 /\ max_limit > 0

\* C6: in download mode, processing an admissible attachment whose file
\* already exists adds exactly one to files_existed and nothing to
\* files_downloaded. Counted over the file_data of the current message the
\* loop has dealt with: files_existed has grown by the number of them found
\* on disk, files_downloaded by no more than the number of the others.
C6_ExistingCounted ==
    (mode = "download" /\ processed > 0) =>
        LET done == 1..Len(EntriesOfCurrent)
            found == {i \in done : ProbeFound(files_data[i])}
        IN  /\ files_existed = mark.existed + Cardinality(found)
            /\ files_downloaded <= mark.downloaded + Cardinality(done \ found)
            /\ files_downloaded >= mark.downloaded

\* A download run whose current attachment was found on disk, after an
\* earlier one was downloaded.
C6_Witness ==
    /\ mode = "download"
    /\ MessageOver
    /\ Len(EntriesOfCurrent) = 1
    /\ ProbeFound(files_data[1])
    /\ files_downloaded = 1
    /\ files_existed = 1

\* C7: in download mode, when the transfer of an admissible attachment
\* fails, its manifest entry is still in the manifest handed to the writer
\* at the end of the run, as if the transfer had succeeded.
C7_FailedTransferStillWritten ==
    (pc \in {"Done", "Failed"} /\ output /\ failure \in {"none", "transfer"}) =>
        \A k \in 1..Len(transfers) :
            transfers[k].outcome \in {"none", "raise"} =>
                /\ writes = 1
                /\ Len(written) = 1
                /\ \E i \in 1..Len(written[1].entries) :
                      written[1].entries[i].post_url.message_id = transfers[k].id

\* C8: in list mode the filesystem is never probed or written: no existence
\* check, no transfer, every decision has file_exists false and no file
\* path, and both file counters stay 0.
C8_ListModeTouchesNothing ==
    mode = "list" =>
        /\ probes = <<>>
        /\ transfers = <<>>
        /\ inflight = 0
        /\ files_downloaded = 0
        /\ files_existed = 0
        /\ fs \in InitialDisks
        /\ \A i \in 1..Len(files_data) :
              ~files_data[i].file_exists /\ files_data[i].file_path = <<>>

\* A list run that has recorded an attachment whose file is on disk.
C8_Witness ==
    /\ mode = "list"
    /\ MessageOver
    /\ Len(EntriesOfCurrent) = 1
    /\ PathJoin(DownloadDir, channel_data[Len(channel_data)].combined_name) \in fs

\* C9: message N+1 is never pulled before every admissible attachment of
\* message N has been dealt with and, in download mode, its transfer has
\* returned or its file was found on disk; at most one transfer is in
\* flight at any time.
C9_Sequential ==
    /\ inflight <= 1
    /\ inflight = 1 => pc = "Transferring"
    /\ \A k \in 1..Len(transfers) :
          transfers[k].outcome = "pending" => (k = Len(transfers) /\ pc = "Transferring")
    /\ (pc = "Iterating" /\ processed > 0) =>
          /\ inflight = 0
          /\ Len(EntriesOfCurrent) = Len(files_data)
          /\ mode = "download" =>
                \A i \in 1..Len(files_data) :
                    \/ ProbeFound(files_data[i])
                    \/ \E k \in 1..Len(transfers) :
                          /\ transfers[k].id = message.id
                          /\ transfers[k].path = files_data[i].file_path
                          /\ transfers[k].outcome \in {"ok", "none"}

\* The second message is about to be pulled after the first one's transfer.
C9_Witness ==
    /\ pc = "Iterating"
    /\ processed = 1
    /\ available > 1
    /\ Len(transfers) = 1
    /\ transfers[1].outcome = "ok"

\* C10: after every processed message, whatever its outcome, exactly one
\* pacing delay occurs before the next message is pulled. A message is
\* pulled only from "Iterating", where as many delays have been taken as
\* messages pulled; while a message is being processed its delay is still
\* to come.
C10_OneDelayPerMessage ==
    /\ pc \in {"Initializing", "Iterating", "Finalizing", "Done"} => delays = processed
    /\ pc \in {"Processing", "Files", "Transferring"} => delays = processed - 1
    /\ pc = "Failed" => delays \in {processed - 1, processed}

\* The second message has been pulled after a first one that yielded no file.
C10_Witness ==
    /\ pc = "Processing"
    /\ processed = 2
    /\ delays = 1
    /\ files_data = <<>>


\* The position in the source of the message a manifest row comes from.
SeenIndex(entry) == CHOOSE k \in 1..Len(seen) : seen[k] = entry.post_url.message_id

\* C11: the manifest handed to the writer holds exactly one entry per
\* admissible attachment, in discovery order: rows of an earlier-yielded
\* message precede rows of a later one, the sequence is written as it was
\* accumulated, and a row once appended is never removed or changed.
C11_DiscoveryOrder ==
    /\ [](/\ \A i, j \in 1..Len(channel_data) :
                i < j => SeenIndex(channel_data[i]) <= SeenIndex(channel_data[j])
          /\ \A k \in 1..Len(written) : written[k].entries = channel_data
          /\ MessageOver =>
                Len(EntriesOfCurrent) = Len(SelectSeq(AttachmentsOf(message), Admissible)))
    /\ [][/\ Len(channel_data') >= Len(channel_data)
          /\ SubSeq(channel_data', 1, Len(channel_data)) = channel_data]_vars

\* A manifest of two rows from two messages has been written.
C11_Witness ==
    /\ pc = "Done"
    /\ Len(written) = 1
    /\ Len(written[1].entries) = 2
    /\ written[1].entries[1].post_url.message_id > written[1].entries[2].post_url.message_id


\* The file names of the admissible attachments of a message, in order.
AdmissibleNames(msg) ==
    LET adm == SelectSeq(AttachmentsOf(msg), Admissible)
    IN  [i \in 1..Len(adm) |-> FileNameOf(adm[i])]

\* C12: the documents of a message are evaluated independently: rejecting
\* one does not stop or change the evaluation of its siblings, so
\* process_message returns one decision for each admissible document, in
\* order (a .csv and an .exe document: exactly the .csv one).
C12_SiblingsIndependent ==
    pc = "Files" =>
        [i \in 1..Len(files_data) |-> files_data[i].file_name] = AdmissibleNames(message)


\* C13: whatever the allowed set, also one that holds the empty string, an
\* attachment whose file name has an empty or missing extension is never
\* admitted: no decision and no manifest entry is produced for it.
C13_EmptyExtensionNeverAdmitted ==
    /\ \A i \in 1..Len(channel_data) : SplitextExt(channel_data[i].file_name) # <<>>
    /\ pc = "Files" => \A i \in 1..Len(files_data) : SplitextExt(files_data[i].file_name) # <<>>

\* C14: an attachment passes the size policy iff its size in bytes is at
\* most L * 1024 * 1024: a size equal to the limit is accepted, one byte
\* more is rejected. Stated on documents that pass the name and extension
\* checks, for which the size check decides.
C14_SizeWithinLimit ==
    (/\ pc = "Files"
     /\ message.media.kind = "document"
     /\ FileNameOf(message.media.document) # <<>>
     /\ ExtensionAllowed(FileNameOf(message.media.document), allowed_extensions)) =>
        (files_data # <<>> <=> message.media.document.size <= maxsize_mb * 1024 * 1024)

\* A document of exactly 2 MiB under a limit of 2 has been accepted.
C14_Witness ==
    /\ pc = "Files"
    /\ maxsize_mb = 2
    /\ message.media.kind = "document"
    /\ message.media.document.size = 2 * 1024 * 1024
    /\ Len(files_data) = 1

\* C15: files_downloaded is incremented for an attachment only when its
\* transfer succeeded; a transfer that reports failure, with or without an
\* error, never increases it.
C15_DownloadedOnlyOnSuccess ==
    files_downloaded <= Cardinality({k \in 1..Len(transfers) : transfers[k].outcome = "ok"})


\* The steps a run can take from one position to the next.
RunSteps ==
    { <<"Initializing", "Iterating">>, <<"Initializing", "Failed">>,
      <<"Iterating", "Processing">>, <<"Iterating", "Finalizing">>, <<"Iterating", "Failed">>,
      <<"Processing", "Files">>, <<"Processing", "Failed">>,
      <<"Files", "Files">>, <<"Files", "Transferring">>,
      <<"Files", "Iterating">>, <<"Files", "Finalizing">>,
      <<"Transferring", "Files">>, <<"Transferring", "Failed">>,
      <<"Finalizing", "Done">>, <<"Finalizing", "Failed">> }

\* C16: the run goes Initializing -> Iterating -> Finalizing -> Done, with
\* Failed absorbing: the writer is invoked at most once and only after the
\* iteration has ended (source exhausted or bound reached), never while
\* messages are still pulled; once the run is Failed or Done nothing more
\* happens: no pull, no transfer, no write.
C16_RunStateMachine ==
    /\ [](/\ writes <= 1
          /\ Len(written) <= writes
          /\ writes = 1 =>
                /\ pc \in {"Done", "Failed"}
                /\ failure \in {"none", "write"}
                /\ inflight = 0
                /\ Len(seen) >= available \/ processed >= max_limit)
    /\ [][/\ pc \notin {"Done", "Failed"}
          /\ <<pc, pc'>> \in RunSteps
          /\ writes' # writes => (pc = "Finalizing" /\ seen' = seen /\ transfers' = transfers)]_vars

\* The manifest has been written once, after two messages.
C16_Witness ==
    /\ pc = "Done"
    /\ writes = 1
    /\ processed = 2
    /\ Len(transfers) >= 1

\* C17: whenever a message has been fully processed (at every loop boundary
\* and at Done), in download mode files_downloaded + files_existed is the
\* number of manifest entries, in list mode both counters are 0, and
\* processed is the number of messages pulled and, for a maximum >= 1,
\* never above it.
C17_Accounting ==
    /\ processed = Len(seen)
    /\ max_limit >= 1 => processed <= max_limit
    /\ pc \in {"Iterating", "Finalizing", "Done"} =>
          /\ mode = "download" => files_downloaded + files_existed = Len(channel_data)
          /\ mode = "list" => files_downloaded = 0 /\ files_existed = 0

\* A download run is done with one file downloaded and one found on disk.
C17_Witness ==
    /\ pc = "Done"
    /\ mode = "download"
    /\ processed = 2
    /\ files_downloaded = 1
    /\ files_existed = 1
    /\ Len(channel_data) = 2


\* An earlier message's transfer to the path of fd has succeeded.
DownloadedEarlier(fd) ==
    \E k \in 1..Len(transfers) :
        /\ transfers[k].path = fd.file_path
        /\ transfers[k].id # message.id
        /\ transfers[k].outcome = "ok"

\* C18 as stated: no transfer is requested to a path at which a file
\* exists at the moment of the request; hence within one run at most one
\* transfer is requested per combined name, and a later admissible
\* attachment with the same posting day and original name is counted as
\* 'already existed' while still getting its own manifest entry.
C18_OneTransferPerName ==
    /\ \A k \in 1..Len(transfers) : ~transfers[k].present
    /\ \A k, l \in 1..Len(transfers) : k < l => transfers[k].path # transfers[l].path
    /\ (mode = "download" /\ processed > 0) =>
          \A i \in 1..Len(EntriesOfCurrent) :
              (\E k \in 1..Len(transfers) :
                    transfers[k].path = files_data[i].file_path /\ transfers[k].id # message.id)
              => ProbeFound(files_data[i])

\* C18, amended: no transfer is requested to a path at which a file exists
\* at the moment of the request; hence no transfer is requested for a
\* combined name after a transfer to it has succeeded (at most one
\* successful transfer per name), and a later admissible attachment with
\* the same combined name as one whose transfer succeeded is counted as
\* 'already existed' while still getting its own manifest entry.
C18_NoOverwrite ==
    /\ \A k \in 1..Len(transfers) : ~transfers[k].present
    /\ \A k, l \in 1..Len(transfers) :
          (k < l /\ transfers[k].path = transfers[l].path) => transfers[k].outcome # "ok"
    /\ (mode = "download" /\ processed > 0) =>
          \A i \in 1..Len(EntriesOfCurrent) :
              DownloadedEarlier(files_data[i]) =>
                  /\ ProbeFound(files_data[i])
                  /\ ~Requested(files_data[i])
                  /\ files_existed >= mark.existed + 1
                  /\ EntriesOfCurrent[i].post_url.message_id = message.id
                  /\ EntriesOfCurrent[i].combined_name
                        = sanitize_filename(message, files_data[i].file_name)

\* Two attachments with one combined name: the first downloaded, the
\* second found on disk, both in the manifest.
C18_Witness ==
    /\ mode = "download"
    /\ MessageOver
    /\ Len(channel_data) = 2
    /\ channel_data[1].combined_name = channel_data[2].combined_name
    /\ channel_data[1].date_posted # channel_data[2].date_posted
    /\ Len(transfers) = 1
    /\ transfers[1].outcome = "ok"
    /\ files_downloaded = 1
    /\ files_existed = 1


\* C19: when a download-mode run in which every requested transfer
\* succeeded is followed by a second run over the same messages with the
\* same configuration, the second run requests no transfer, leaves the disk
\* as the first run left it, counts nothing as downloaded and every
\* attachment it admits as already existed, and ends with the manifest of
\* the first run.
FirstRunClean ==
    /\ previous.ran
    /\ \A k \in 1..Len(previous.transfers) : previous.transfers[k].outcome = "ok"

IsPrefix(s, t) == Len(s) <= Len(t) /\ SubSeq(t, 1, Len(s)) = s

C19_RerunIdempotent ==
    FirstRunClean =>
        /\ transfers = <<>>
        /\ inflight = 0
        /\ fs = previous.fs
        /\ files_downloaded = 0
        /\ IsPrefix(channel_data, previous.channel_data)
        /\ pc \in {"Iterating", "Finalizing", "Done"} => files_existed = Len(channel_data)
        /\ pc = "Done" =>
              /\ channel_data = previous.channel_data
              /\ written = previous.written
              /\ output => /\ Len(written) = 1
                           /\ written[1].entries = previous.channel_data

C19_Witness ==
    /\ FirstRunClean
    /\ Len(previous.transfers) = 2
    /\ pc = "Done"
    /\ files_existed = 2
    /\ Len(written) = 1


\* C20: over a finite channel, when every call the run awaits eventually
\* returns or raises, every run eventually reaches Done or Failed, and when
\* the maximum is at least 1 the loop never makes more than
\* min(available, max_limit) iterations.
C20_Terminates ==
    /\ <>(pc \in {"Done", "Failed"})
    /\ [](max_limit >= 1 => processed <= Min(available, max_limit))

C20_Witness ==
    /\ pc = "Done"
    /\ available > max_limit
    /\ processed = max_limit
    /\ processed = MaxLimit

====
